---- MODULE Spec2Model ----
(***************************************************************************)
(* Verification model of the provisioning pipeline:                        *)
(*   - comfyui_wrapper.py    the Process Supervisor (run_comfyui_with_retry)*)
(*   - download_models.py    the Fetch Engine and its two transports        *)
(*   - setup_custom_nodes.py the Repository Materializer and the           *)
(*                           Dependency Installer                           *)
(* Each subsystem has its own specification (Spec, FetchSpec, CloneSpec,   *)
(* InstallSpec) over its own variables; the others' variables stay idle.   *)
(***************************************************************************)
EXTENDS Integers, Sequences, FiniteSets, TLC

VARIABLES
    \* ---- Process Supervisor (comfyui_wrapper.py) ----
    pc,               \* position of run_comfyui_with_retry
    retry_count,      \* local retry_count
    process,          \* index of the child bound to local `process` (0: unbound)
    children,         \* state of every child launched by this call
    startup_complete, \* local startup_complete of the current attempt
    line_count,       \* local line_count of the current attempt
    line,             \* the last line read from the child
    installs,         \* history: the calls of install_module, in order
    eof_seen,         \* history: readline returned '' (stream ended)
    interrupted,      \* history: a KeyboardInterrupt was delivered
    result,           \* return value of run_comfyui_with_retry
    \* ---- Fetch Engine (download_models.py) ----
    fpc,              \* position of download_models_parallel
    config,           \* the URLs of the manifest's category, in order
    aria2c_available, \* result of check_aria2c()
    CIVITAI_TOKEN,    \* whether the environment sets CIVITAI_TOKEN
    files,            \* the category directory: state of each final file
    tmpfiles,         \* the category directory: state of each '<name>.tmp'
    files0,           \* history: `files` when the run started
    download_tasks,   \* the jobs of the run, each with its own position
    auth_sent,        \* history: URLs requested with the Authorization header
    success_count,    \* the reported counts
    failed_count,
    \* ---- Repository Materializer (setup_custom_nodes.py) ----
    cpc,              \* position of main
    nodes,            \* the component manifest: <<[name, repos]>>, in order
    tree,             \* custom_nodes: state of each component directory
    tree0,            \* history: `tree` when the run started
    clone_tasks,      \* the clone jobs of the run, each with its own position
    clone_success,    \* the reported number of successful clone jobs
    \* ---- Dependency Installer (setup_custom_nodes.py) ----
    req_files,        \* requirements.txt each component's repository carries
    pybin_exists,     \* whether <venv>/bin/python exists
    install_tasks,    \* the install jobs of the run, each with its own position
    constraints_file, \* /tmp/constraints_custom_nodes.txt: absent, or the pin
    constraints_writes, \* history: how often the run wrote the constraints file
    torch_version,    \* the torch version installed in the venv
    install_success,  \* the reported number of successful install jobs
    \* ---- the asyncio.Semaphore of one batch (all three files) ----
    slot_stage,       \* which batch the semaphore belongs to
    sem_value,        \* the semaphore's counter of free slots
    slot_jobs         \* each wrapped job: pending, running, or its outcome

supVars == <<pc, retry_count, process, children, startup_complete, line_count,
             line, installs, eof_seen, interrupted, result>>

fetchVars == <<fpc, config, aria2c_available, CIVITAI_TOKEN, files, tmpfiles,
               files0, download_tasks, auth_sent, success_count, failed_count>>

cloneVars == <<cpc, nodes, tree, tree0, clone_tasks, clone_success>>

installVars == <<req_files, pybin_exists, install_tasks, constraints_file,
                 constraints_writes, torch_version, install_success>>

slotVars == <<slot_stage, sem_value, slot_jobs>>

vars == <<supVars, fetchVars, cloneVars, installVars, slotVars>>

notSupVars == <<fetchVars, cloneVars, installVars, slotVars>>

notFetchVars == <<supVars, cloneVars, installVars, slotVars>>

notCloneVars == <<supVars, fetchVars, installVars, slotVars>>

notSlotVars == <<supVars, fetchVars, cloneVars, installVars>>

\* install_requirements_parallel moves main's position and nothing else of main
notInstallVars == <<supVars, fetchVars, nodes, tree, tree0, clone_tasks,
                    clone_success, slotVars>>

\* ------------------------------------------------------------------------
\* asyncio.gather(*tasks, return_exceptions=True), used by all three batches
\* ------------------------------------------------------------------------
gather_returns_at_first_failure(tasks) ==
    \/ \A j \in 1..Len(tasks) : tasks[j].pc = "done"
    \/ \E j \in 1..Len(tasks) : tasks[j].res \in {"False", "raised"}

\* the gather returns when every job has ended, whatever each job's outcome
gather_returned(tasks) ==
    \A j \in 1..Len(tasks) : tasks[j].pc = "done"

\* ------------------------------------------------------------------------
\* Bounds of the model (not program constants)
\* ------------------------------------------------------------------------
MaxLines == 2         \* lines read from one child before the model stops reading
MaxUrls == 2          \* URLs in the asset manifest's category
MaxMirrors == 2       \* mirror locators of component "b" in the manifest
ExtraJobs == 1        \* jobs of a batch beyond the limit of its semaphore

\* ------------------------------------------------------------------------
\* Process Supervisor: constants and pure functions
\* ------------------------------------------------------------------------
max_retries == 3

\* OPTIONAL_MODULES, the allow-list of modules that may be auto-installed
OPTIONAL_MODULES ==
    { "aiohttp", "requests", "psutil", "scipy", "comfyui-frontend-package",
      "torchsde", "omegaconf", "accelerate", "diffusers", "controlnet_aux",
      "opencv-python", "mediapipe", "ultralytics", "insightface", "basicsr",
      "facexlib", "gfpgan", "realesrgan", "codeformer", "clip",
      "open_clip_torch", "timm", "kornia", "albumentations", "imageio",
      "imageio-ffmpeg", "av", "moviepy", "pytorch_lightning", "wandb",
      "tensorboard", "tensorboardX", "onnxruntime", "onnxruntime-gpu",
      "comfyui_controlnet_aux", "comfyui_ultralytics", "comfyui_insightface",
      "comfyui_face_restoration", "comfyui_anime_segmentation",
      "comfyui_face_detection", "comfyui_face_parsing",
      "comfyui_face_landmark", "comfyui_face_swap",
      "comfyui_face_enhancement" }

NoName == "<none>"

\* Module names a child's output may mention: two of the allow-list, two not
ModuleNames == { "scipy", "torchsde", "xformers", "sageattention" }

\* A line of child output, reduced to what the supervisor looks at:
\*   indicator   the line contains one of the startup-complete markers
\*   no_module   the line contains the text "No module named"
\*   quoted      the name that directly follows as '<name>', NoName when the
\*               text is not followed by a quoted name
Lines ==
    { [indicator |-> i, no_module |-> FALSE, quoted |-> NoName] : i \in BOOLEAN }
    \cup
    { [indicator |-> i, no_module |-> TRUE, quoted |-> q] :
        i \in BOOLEAN, q \in ModuleNames \cup {NoName} }

NoLine == [indicator |-> FALSE, no_module |-> FALSE, quoted |-> NoName]

\* a pattern without the quotes, which takes whatever follows the text as the
\* name (here: the first allow-listed name when nothing is quoted)
detect_missing_module_unquoted(error_msg) ==
    IF error_msg.no_module
    THEN IF error_msg.quoted # NoName THEN error_msg.quoted ELSE "scipy"
    ELSE NoName

\* re.search(r"No module named '([^']+)'", error_msg): group(1) or None
detect_missing_module(error_msg) ==
    IF error_msg.no_module /\ error_msg.quoted # NoName
    THEN error_msg.quoted
    ELSE NoName

\* `if missing_module in OPTIONAL_MODULES`
in_optional_list_all(missing_module) == TRUE

in_optional_list(missing_module) == missing_module \in OPTIONAL_MODULES

\* auto_install_missing reaches the call of install_module for this line
calls_install_module(error_msg) ==
    /\ detect_missing_module(error_msg) # NoName
    /\ in_optional_list(detect_missing_module(error_msg))

\* return value of auto_install_missing, given install_module's outcome
auto_install_missing_ignoring_outcome(error_msg, install_ok) ==
    calls_install_module(error_msg)

auto_install_missing(error_msg, install_ok) ==
    calls_install_module(error_msg) /\ install_ok

\* the value returned after the read loop is left (line 180)
return_after_loop_by_exit_code(child_state) ==
    IF child_state = "exit0" THEN "True" ELSE "False"

return_after_loop(child_state) == "True"

\* process.terminate(): SIGTERM to a live child, nothing for one that exited
terminate(child_state) ==
    IF child_state = "running" THEN "terminating" ELSE child_state

wait_returns_at_once(child_state) == child_state # "none"

\* process.wait() returns for a child in this state
Exited(child_state) == child_state \in {"exit0", "exit1", "killed"}

\* the exit code of the wrapper script (__main__)
wrapper_exit_code(res) == IF res = "True" THEN 0 ELSE 1

Launches == Cardinality({ i \in 1..max_retries : children[i] # "none" })

\* ------------------------------------------------------------------------
\* Fetch Engine: constants, inputs and pure functions
\* ------------------------------------------------------------------------
MAX_CONCURRENT_DOWNLOADS == 8

\* the host the token of the environment is meant for
GatedHost == "civitai.com"

\* A URL, reduced to what the code looks at and what the server is:
\*   host       urlparse(url).netloc, the host the request goes to
\*   names_file whether the URL's path ends in the asset's file name
\*   civitai    "civitai.com" in url
\*   model_id   the text after "models/" up to '?', NoName without "models/"
\*   basename   os.path.basename(urlparse(url).path)
\*   cd         the file name the server's Content-Disposition advertises when
\*              it sends one that re.search(r'filename="(.+)"') matches
UrlHF ==
    [id |-> "hf", host |-> "huggingface.co", names_file |-> TRUE,
     civitai |-> FALSE, model_id |-> NoName,
     basename |-> "a.safetensors", cd |-> "a.safetensors"]
UrlMirror ==
    [id |-> "mirror", host |-> "mirror.example", names_file |-> TRUE,
     civitai |-> FALSE, model_id |-> NoName,
     basename |-> "a.safetensors", cd |-> "a.safetensors"]
UrlCivitai ==
    [id |-> "civitai", host |-> GatedHost, names_file |-> FALSE,
     civitai |-> TRUE, model_id |-> "123",
     basename |-> "123", cd |-> "b.safetensors"]
\* https://cdn.example/civitai.com/a.safetensors: the text "civitai.com" is in
\* the URL, the host is another one
UrlLookalike ==
    [id |-> "lookalike", host |-> "cdn.example", names_file |-> TRUE,
     civitai |-> TRUE, model_id |-> NoName,
     basename |-> "a.safetensors", cd |-> "a.safetensors"]
\* https://files.example/download?id=9: the name comes with the response only
UrlOpaque ==
    [id |-> "opaque", host |-> "files.example", names_file |-> FALSE,
     civitai |-> FALSE, model_id |-> NoName,
     basename |-> "download", cd |-> "b.safetensors"]

UrlPool == <<UrlHF, UrlCivitai, UrlMirror, UrlLookalike, UrlOpaque>>

\* f"temp_model_{model_id}.safetensors"
temp_model_name(model_id) ==
    IF model_id = "123" THEN "temp_model_123.safetensors" ELSE "temp_model_"

FileNames ==
    { "a.safetensors", "b.safetensors", "temp_model_123.safetensors", "123",
      "temp_model_", "download" }

\* the manifests tried: the subsequences of UrlPool of 1..MaxUrls URLs
RECURSIVE SubSeqs(_)
SubSeqs(q) ==
    IF q = <<>> THEN { <<>> }
    ELSE LET rest == SubSeqs(Tail(q))
         IN  rest \cup { <<Head(q)>> \o r : r \in rest }

Configs == { c \in SubSeqs(UrlPool) : Len(c) \in 1..MaxUrls }

get_filename_from_url(url) ==
    IF url.civitai /\ url.model_id # NoName
    THEN temp_model_name(url.model_id)
    ELSE url.basename

\* the name download_with_aiohttp resolves for a 200 response
resolved_filename(url, cd) ==
    IF cd # NoName THEN cd ELSE get_filename_from_url(url)

\* dest.exists()
never_exists(fs, name) == FALSE

exists(fs, name) == fs[name] # "absent"

\* temp_dest.exists() and temp_dest.stat().st_size > 0
nonempty(state) == state \notin {"absent", "empty"}

\* the Authorization header is added to the request
sends_authorization(url, token) == url.civitai /\ token

Job(kind, url) ==
    [kind |-> kind, url |-> url, pc |-> "pending", res |-> "none",
     name |-> NoName, fell_back |-> FALSE, requests |-> 0, spawned |-> FALSE]

\* the task list download_models_parallel builds from the manifest
RECURSIVE build_tasks(_, _, _)
build_tasks(urls, fs, aria2c) ==
    IF urls = <<>> THEN <<>>
    ELSE LET url == Head(urls)
             rest == build_tasks(Tail(urls), fs, aria2c)
         IN  IF url.civitai
             THEN <<Job("aiohttp", url)>> \o rest
             ELSE IF aria2c
                  THEN IF exists(fs, get_filename_from_url(url))
                       THEN rest
                       ELSE <<Job("aria2c", url)>> \o rest
                  ELSE <<Job("aiohttp", url)>> \o rest

JobIds == 1..Len(download_tasks)

InFlight == { j \in JobIds : download_tasks[j].pc \notin {"pending", "done"} }

\* jobs that hold '<name>.tmp' open for writing
Writers(name) ==
    { j \in JobIds : download_tasks[j].pc = "streaming"
                     /\ download_tasks[j].name = name }

\* ------------------------------------------------------------------------
\* Fetch Engine: initial state and actions
\* ------------------------------------------------------------------------
FetchIdle ==
    /\ fpc = "idle"
    /\ config = <<>>
    /\ aria2c_available = FALSE
    /\ CIVITAI_TOKEN = FALSE
    /\ files = [n \in FileNames |-> "absent"]
    /\ tmpfiles = [n \in FileNames |-> "absent"]
    /\ files0 = files
    /\ download_tasks = <<>>
    /\ auth_sent = {}
    /\ success_count = 0
    /\ failed_count = 0

FetchInit ==
    /\ fpc = "start"
    /\ config \in Configs
    /\ aria2c_available \in BOOLEAN
    /\ CIVITAI_TOKEN \in BOOLEAN
    /\ files \in [FileNames -> {"absent", "complete"}]
    /\ files["123"] = "absent"
    /\ files["temp_model_"] = "absent"
    /\ tmpfiles = [n \in FileNames |-> "absent"]
    /\ files0 = files
    /\ download_tasks = <<>>
    /\ auth_sent = {}
    /\ success_count = 0
    /\ failed_count = 0

\* download_models_parallel up to asyncio.gather (or its early return)
CreateTasks ==
    /\ fpc = "start"
    /\ download_tasks' = build_tasks(config, files, aria2c_available)
    /\ fpc' = IF download_tasks' = <<>> THEN "returned" ELSE "gather"
    /\ UNCHANGED <<config, aria2c_available, CIVITAI_TOKEN, files, tmpfiles,
                   files0, auth_sent, success_count, failed_count>>
    /\ UNCHANGED notFetchVars

\* session.get(url, headers=headers) is sent by job j
SendRequest(j, fallback) ==
    /\ download_tasks' =
         [download_tasks EXCEPT ![j].pc = "http_get",
                                ![j].requests = @ + 1,
                                ![j].fell_back = fallback]
    /\ auth_sent' =
         IF sends_authorization(download_tasks[j].url, CIVITAI_TOKEN)
         THEN auth_sent \cup {download_tasks[j].url.id}
         ELSE auth_sent

\* a job gets a slot of the semaphore and runs to its first await:
\* download_with_aiohttp sends the request; download_with_aria2c creates the
\* directory and spawns aria2c (a Civitai URL goes to aiohttp instead)
StartJob(j) ==
    /\ fpc = "gather"
    /\ download_tasks[j].pc = "pending"
    /\ Cardinality(InFlight) < MAX_CONCURRENT_DOWNLOADS
    /\ IF download_tasks[j].kind = "aiohttp" \/ download_tasks[j].url.civitai
       THEN SendRequest(j, FALSE)
       ELSE /\ download_tasks' =
                 [download_tasks EXCEPT ![j].pc = "aria2c_run",
                                        ![j].spawned = TRUE,
                                        ![j].name =
                                            get_filename_from_url(download_tasks[j].url)]
            /\ UNCHANGED auth_sent
    /\ UNCHANGED <<fpc, config, aria2c_available, CIVITAI_TOKEN, files, tmpfiles,
                   files0, success_count, failed_count>>
    /\ UNCHANGED notFetchVars

\* dest_dir.mkdir (line 76, outside the try) raises: the exception leaves the job
MkdirRaises(j) ==
    /\ fpc = "gather"
    /\ download_tasks[j].pc = "pending"
    /\ download_tasks[j].kind = "aria2c"
    /\ Cardinality(InFlight) < MAX_CONCURRENT_DOWNLOADS
    /\ download_tasks' = [download_tasks EXCEPT ![j].pc = "done", ![j].res = "raised"]
    /\ UNCHANGED <<fpc, config, aria2c_available, CIVITAI_TOKEN, files, tmpfiles,
                   files0, auth_sent, success_count, failed_count>>
    /\ UNCHANGED notFetchVars

\* create_subprocess_exec raises (FileNotFoundError or another Exception):
\* fall back to download_with_aiohttp
Aria2cSpawnRaises(j) ==
    /\ fpc = "gather"
    /\ download_tasks[j].pc = "pending"
    /\ download_tasks[j].kind = "aria2c"
    /\ ~download_tasks[j].url.civitai
    /\ Cardinality(InFlight) < MAX_CONCURRENT_DOWNLOADS
    /\ SendRequest(j, TRUE)
    /\ UNCHANGED <<fpc, config, aria2c_available, CIVITAI_TOKEN, files, tmpfiles,
                   files0, success_count, failed_count>>
    /\ UNCHANGED notFetchVars

\* aria2c exits: 0 with the whole resource (which may be zero bytes long) at
\* dest, or non-zero with nothing or a partial file left at dest
Aria2cExit(j, rc0, body, leaves_partial) ==
    /\ fpc = "gather"
    /\ download_tasks[j].pc = "aria2c_run"
    /\ LET name == download_tasks[j].name
       IN  IF rc0
           THEN /\ files' = [files EXCEPT ![name] = body]
                /\ download_tasks' =
                     [download_tasks EXCEPT ![j].pc = "done", ![j].res = "True"]
                /\ UNCHANGED auth_sent
           ELSE /\ files' = IF leaves_partial /\ files[name] = "absent"
                            THEN [files EXCEPT ![name] = "partial"]
                            ELSE files
                /\ SendRequest(j, TRUE)
    /\ UNCHANGED <<fpc, config, aria2c_available, CIVITAI_TOKEN, tmpfiles,
                   files0, success_count, failed_count>>
    /\ UNCHANGED notFetchVars

\* the response arrives: a status other than 200 fails the job; with 200 the
\* name is resolved (cd: the Content-Disposition name, NoName without one), an
\* existing dest is skipped, else '<name>.tmp' is opened
HttpResponse(j, ok200, cd) ==
    /\ fpc = "gather"
    /\ download_tasks[j].pc = "http_get"
    /\ cd \in {NoName, download_tasks[j].url.cd}
    /\ LET name == resolved_filename(download_tasks[j].url, cd)
       IN  IF ~ok200
           THEN /\ download_tasks' =
                     [download_tasks EXCEPT ![j].pc = "done", ![j].res = "False"]
                /\ UNCHANGED tmpfiles
           ELSE IF exists(files, name)
                THEN /\ download_tasks' =
                          [download_tasks EXCEPT ![j].pc = "done",
                                                 ![j].res = "True",
                                                 ![j].name = name]
                     /\ UNCHANGED tmpfiles
                ELSE /\ download_tasks' =
                          [download_tasks EXCEPT ![j].pc = "streaming",
                                                 ![j].name = name]
                     /\ tmpfiles' =
                          [tmpfiles EXCEPT ![name] =
                              IF Writers(name) = {} THEN "empty" ELSE "corrupt"]
    /\ UNCHANGED <<fpc, config, aria2c_available, CIVITAI_TOKEN, files, files0,
                   auth_sent, success_count, failed_count>>
    /\ UNCHANGED notFetchVars

\* the request or the streaming raises: `except Exception`, return False
HttpRaises(j) ==
    /\ fpc = "gather"
    /\ download_tasks[j].pc \in {"http_get", "streaming"}
    /\ download_tasks' = [download_tasks EXCEPT ![j].pc = "done", ![j].res = "False"]
    /\ UNCHANGED <<fpc, config, aria2c_available, CIVITAI_TOKEN, files, tmpfiles,
                   files0, auth_sent, success_count, failed_count>>
    /\ UNCHANGED notFetchVars

\* a chunk that is not the last one is written to '<name>.tmp'
StreamChunk(j) ==
    /\ fpc = "gather"
    /\ download_tasks[j].pc = "streaming"
    /\ tmpfiles[download_tasks[j].name] = "empty"
    /\ tmpfiles' = [tmpfiles EXCEPT ![download_tasks[j].name] = "partial"]
    /\ UNCHANGED <<fpc, config, aria2c_available, CIVITAI_TOKEN, files, files0,
                   download_tasks, auth_sent, success_count, failed_count>>
    /\ UNCHANGED notFetchVars

\* the body ends (body: "complete", or "empty" for a zero-byte resource);
\* the file is closed, its size verified, and it is renamed or unlinked
StreamEnd(j, body) ==
    /\ fpc = "gather"
    /\ download_tasks[j].pc = "streaming"
    /\ LET name == download_tasks[j].name
           written == IF tmpfiles[name] \in {"absent", "corrupt"}
                      THEN tmpfiles[name]
                      ELSE body
       IN  /\ body = "empty" => tmpfiles[name] # "partial"
           /\ IF nonempty(written)
              THEN /\ files' = [files EXCEPT ![name] = written]
                   /\ tmpfiles' = [tmpfiles EXCEPT ![name] = "absent"]
                   /\ download_tasks' =
                        [download_tasks EXCEPT ![j].pc = "done", ![j].res = "True"]
              ELSE /\ tmpfiles' = [tmpfiles EXCEPT ![name] = "absent"]
                   /\ download_tasks' =
                        [download_tasks EXCEPT ![j].pc = "done", ![j].res = "False"]
                   /\ UNCHANGED files
    /\ UNCHANGED <<fpc, config, aria2c_available, CIVITAI_TOKEN, files0,
                   auth_sent, success_count, failed_count>>
    /\ UNCHANGED notFetchVars

\* asyncio.gather returns; the counts are computed and printed
Report ==
    /\ fpc = "gather"
    /\ gather_returned(download_tasks)
    /\ success_count' = Cardinality({ j \in JobIds : download_tasks[j].res = "True" })
    /\ failed_count' = Cardinality({ j \in JobIds : download_tasks[j].res = "raised" })
    /\ fpc' = "reported"
    /\ UNCHANGED <<config, aria2c_available, CIVITAI_TOKEN, files, tmpfiles,
                   files0, download_tasks, auth_sent>>
    /\ UNCHANGED notFetchVars

FetchNext ==
    \/ CreateTasks
    \/ \E j \in JobIds : StartJob(j)
    \/ \E j \in JobIds : MkdirRaises(j)
    \/ \E j \in JobIds : Aria2cSpawnRaises(j)
    \/ \E j \in JobIds, rc0 \in BOOLEAN, body \in {"complete", "empty"},
          leaves_partial \in BOOLEAN : Aria2cExit(j, rc0, body, leaves_partial)
    \/ \E j \in JobIds, ok200 \in BOOLEAN, cd \in FileNames \cup {NoName} :
          HttpResponse(j, ok200, cd)
    \/ \E j \in JobIds : HttpRaises(j)
    \/ \E j \in JobIds : StreamChunk(j)
    \/ \E j \in JobIds, body \in {"complete", "empty"} : StreamEnd(j, body)
    \/ Report

\* ------------------------------------------------------------------------
\* Process Supervisor: initial state and actions
\* ------------------------------------------------------------------------
SupInit ==
    /\ pc = "loop"
    /\ retry_count = 0
    /\ process = 0
    /\ children = [i \in 1..max_retries |-> "none"]
    /\ startup_complete = FALSE
    /\ line_count = 0
    /\ line = NoLine
    /\ installs = <<>>
    /\ eof_seen = FALSE
    /\ interrupted = FALSE
    /\ result = "none"

\* `except Exception`: count the attempt, give up at max_retries, else sleep
HandleException ==
    /\ retry_count' = retry_count + 1
    /\ IF retry_count + 1 >= max_retries
       THEN pc' = "done" /\ result' = "False"
       ELSE pc' = "sleep_exc" /\ result' = result

\* loop head and subprocess.Popen succeeding; `return False` after the loop
Launch ==
    /\ pc = "loop"
    /\ IF retry_count < max_retries
       THEN /\ process' = process + 1
            /\ children' = [children EXCEPT ![process + 1] = "running"]
            /\ pc' = "read"
            /\ line_count' = 0
            /\ startup_complete' = FALSE
            /\ result' = result
       ELSE /\ pc' = "done"
            /\ result' = "False"
            /\ UNCHANGED <<process, children, line_count, startup_complete>>
    /\ UNCHANGED <<retry_count, line, installs, eof_seen, interrupted>>
    /\ UNCHANGED notSupVars

\* subprocess.Popen raises (OSError): no new child, `process` keeps its value
PopenRaises ==
    /\ pc = "loop"
    /\ retry_count < max_retries
    /\ HandleException
    /\ UNCHANGED <<process, children, startup_complete, line_count, line,
                   installs, eof_seen, interrupted>>
    /\ UNCHANGED notSupVars

\* readline returns a line; the body of the read loop up to process.terminate()
ReadLine(l) ==
    /\ pc = "read"
    /\ children[process] \in {"running", "exit0", "exit1"}
    /\ line_count < MaxLines
    /\ line' = l
    /\ line_count' = line_count + 1
    /\ startup_complete' = (startup_complete \/ l.indicator)
    /\ IF l.no_module
       THEN /\ children' = [children EXCEPT ![process] = terminate(@)]
            /\ pc' = "wait_term"
       ELSE /\ pc' = "read"
            /\ UNCHANGED children
    /\ UNCHANGED <<retry_count, process, installs, eof_seen, interrupted, result>>
    /\ UNCHANGED notSupVars

\* readline (or a print of the loop body) raises an Exception
ReadRaises ==
    /\ pc = "read"
    /\ HandleException
    /\ UNCHANGED <<process, children, startup_complete, line_count, line,
                   installs, eof_seen, interrupted>>
    /\ UNCHANGED notSupVars

\* readline returns '' (the child closed its output, it exits now or a little
\* later): break out of the read loop
ReadEOF ==
    /\ pc = "read"
    /\ children[process] \in {"running", "exit0", "exit1"}
    /\ eof_seen' = TRUE
    /\ pc' = "wait_final"
    /\ UNCHANGED <<retry_count, process, children, startup_complete, line_count,
                   line, installs, interrupted, result>>
    /\ UNCHANGED notSupVars

\* a child of this call exits by itself, or dies of the SIGTERM it was sent
ChildExit(i, code) ==
    /\ pc # "done"
    /\ \/ children[i] = "running" /\ code \in {"exit0", "exit1"}
       \/ children[i] = "terminating" /\ code = "killed"
    /\ children' = [children EXCEPT ![i] = code]
    /\ UNCHANGED <<pc, retry_count, process, startup_complete, line_count, line,
                   installs, eof_seen, interrupted, result>>
    /\ UNCHANGED notSupVars

\* process.wait() after terminate returns; auto_install_missing up to the
\* call of install_module, or its `return False`
WaitTerminated ==
    /\ pc = "wait_term"
    /\ Exited(children[process])
    /\ IF calls_install_module(line)
       THEN pc' = "install" /\ result' = result
       ELSE pc' = "done" /\ result' = "False"
    /\ UNCHANGED <<retry_count, process, children, startup_complete, line_count,
                   line, installs, eof_seen, interrupted>>
    /\ UNCHANGED notSupVars

\* install_module (subprocess.run of uv) ends; the rest of the branch
InstallDone(ok) ==
    /\ pc = "install"
    /\ installs' = Append(installs,
                          [module |-> detect_missing_module(line), ok |-> ok,
                           at |-> process])
    /\ IF auto_install_missing(line, ok)
       THEN /\ retry_count' = retry_count + 1
            /\ pc' = "sleep_retry"
            /\ result' = result
       ELSE /\ pc' = "done"
            /\ result' = "False"
            /\ UNCHANGED retry_count
    /\ UNCHANGED <<process, children, startup_complete, line_count, line,
                   eof_seen, interrupted>>
    /\ UNCHANGED notSupVars

\* time.sleep(2) of the install branch ends; `break` leaves the read loop
SleepRetryDone ==
    /\ pc = "sleep_retry"
    /\ pc' = "wait_final"
    /\ UNCHANGED <<retry_count, process, children, startup_complete, line_count,
                   line, installs, eof_seen, interrupted, result>>
    /\ UNCHANGED notSupVars

\* process.wait() after the read loop returns; `return True`
WaitFinal ==
    /\ pc = "wait_final"
    /\ Exited(children[process])
    /\ result' = return_after_loop(children[process])
    /\ pc' = "done"
    /\ UNCHANGED <<retry_count, process, children, startup_complete, line_count,
                   line, installs, eof_seen, interrupted>>
    /\ UNCHANGED notSupVars

\* time.sleep(2) of the `except Exception` handler ends; back to the loop head
SleepExcDone ==
    /\ pc = "sleep_exc"
    /\ pc' = "loop"
    /\ UNCHANGED <<retry_count, process, children, startup_complete, line_count,
                   line, installs, eof_seen, interrupted, result>>
    /\ UNCHANGED notSupVars

\* KeyboardInterrupt raised inside the try body: `except KeyboardInterrupt`
Interrupt ==
    /\ pc \in {"loop", "read", "wait_term", "install", "sleep_retry", "wait_final"}
    /\ interrupted' = TRUE
    /\ children' = IF process > 0
                   THEN [children EXCEPT ![process] = terminate(@)]
                   ELSE children
    /\ result' = "True"
    /\ pc' = "done"
    /\ UNCHANGED <<retry_count, process, startup_complete, line_count, line,
                   installs, eof_seen>>
    /\ UNCHANGED notSupVars

\* KeyboardInterrupt raised by the sleep inside the `except Exception` handler:
\* no clause of the try statement covers it, it leaves the function
InterruptInHandler ==
    /\ pc = "sleep_exc"
    /\ interrupted' = TRUE
    /\ result' = "raised"
    /\ pc' = "done"
    /\ UNCHANGED <<retry_count, process, children, startup_complete, line_count,
                   line, installs, eof_seen>>
    /\ UNCHANGED notSupVars

SupNext ==
    \/ Launch
    \/ PopenRaises
    \/ \E l \in Lines : ReadLine(l)
    \/ ReadRaises
    \/ ReadEOF
    \/ \E i \in 1..max_retries, code \in {"exit0", "exit1", "killed"} : ChildExit(i, code)
    \/ WaitTerminated
    \/ \E ok \in BOOLEAN : InstallDone(ok)
    \/ SleepRetryDone
    \/ WaitFinal
    \/ SleepExcDone
    \/ Interrupt
    \/ InterruptInHandler

\* ------------------------------------------------------------------------
\* Repository Materializer: constants, inputs and pure functions
\* ------------------------------------------------------------------------
MAX_CONCURRENT_CLONES == 6

clone_max_retries == 3

ComponentNames == {"a", "b"}

\* mirror locators of component "b": "repoB1", "repoB2", ...
MirrorsOfB(m) == [k \in 1..m |-> <<"repoB", k>>]

\* the manifests tried: "a" with one locator, "b" with 1..MaxMirrors mirrors
Manifests ==
    { << [name |-> "a", repos |-> << <<"repoA", 1>> >>] >> }
    \cup { << [name |-> "b", repos |-> MirrorsOfB(m)] >> : m \in 1..MaxMirrors }
    \cup { << [name |-> "a", repos |-> << <<"repoA", 1>> >>],
              [name |-> "b", repos |-> MirrorsOfB(m)] >> : m \in 1..MaxMirrors }

CloneJob(name, repo) ==
    [name |-> name, repo |-> repo, pc |-> "pending", attempt |-> 0,
     git |-> "none", res |-> "none"]

\* the inner loop of main over the locators of one name
RECURSIVE tasks_of_name(_, _, _)
tasks_of_name(name, repos, fs) ==
    IF repos = <<>> THEN <<>>
    ELSE IF fs[name] = "absent"
         THEN <<CloneJob(name, Head(repos))>> \o tasks_of_name(name, Tail(repos), fs)
         ELSE tasks_of_name(name, Tail(repos), fs)

\* the task list main builds: no coroutine runs before asyncio.gather, so every
\* dest.exists() of the loops sees the tree as it is at the start
RECURSIVE build_clone_tasks(_, _)
build_clone_tasks(entries, fs) ==
    IF entries = <<>> THEN <<>>
    ELSE tasks_of_name(Head(entries).name, Head(entries).repos, fs)
         \o build_clone_tasks(Tail(entries), fs)

CloneIds == 1..Len(clone_tasks)

ClonesInFlight == { j \in CloneIds : clone_tasks[j].pc \notin {"pending", "done"} }

\* shutil.rmtree(dest) by job j: the tree goes, and a sibling's git that is
\* writing into it loses its work
damage_siblings(tasks, j, name) ==
    [k \in 1..Len(tasks) |->
        IF k # j /\ tasks[k].name = name /\ tasks[k].git = "writing"
        THEN [tasks[k] EXCEPT !.git = "damaged"]
        ELSE tasks[k]]

FailedAttempt_without_rmtree(j, fs) ==
    /\ tree' = fs
    /\ clone_tasks' = [clone_tasks EXCEPT ![j].pc = "sleep", ![j].git = "none"]

\* the handler of a failed attempt of job j (non-zero exit or exception), run
\* on tree `fs`: `if dest.exists(): shutil.rmtree(dest)`, then the sleep
FailedAttempt(j, fs) ==
    LET name == clone_tasks[j].name
    IN  /\ tree' = [fs EXCEPT ![name] = "absent"]
        /\ clone_tasks' =
             [ (IF fs[name] # "absent"
                THEN damage_siblings(clone_tasks, j, name)
                ELSE clone_tasks)
               EXCEPT ![j].pc = "sleep", ![j].git = "none" ]

clone_dest_never_exists(fs, name) == FALSE

\* `dest.exists()` at the top of clone_repo
clone_dest_exists(fs, name) == fs[name] # "absent"

\* ------------------------------------------------------------------------
\* Repository Materializer: initial state and actions
\* ------------------------------------------------------------------------
CloneIdle ==
    /\ cpc = "idle"
    /\ nodes = <<>>
    /\ tree = [n \in ComponentNames |-> "absent"]
    /\ tree0 = tree
    /\ clone_tasks = <<>>
    /\ clone_success = 0

CloneInit ==
    /\ cpc = "start"
    /\ nodes \in Manifests
    /\ tree \in [ComponentNames -> {"absent", "cloned"}]
    /\ tree0 = tree
    /\ clone_tasks = <<>>
    /\ clone_success = 0

\* main up to asyncio.gather; with no task it goes on to the requirements
CreateCloneTasks ==
    /\ cpc = "start"
    /\ clone_tasks' = build_clone_tasks(nodes, tree)
    /\ cpc' = IF clone_tasks' = <<>> THEN "install" ELSE "gather"
    /\ UNCHANGED <<nodes, tree, tree0, clone_success>>
    /\ UNCHANGED notCloneVars

\* a job gets a slot of the semaphore; clone_repo up to its first await
CloneStart(j, raises) ==
    /\ cpc = "gather"
    /\ clone_tasks[j].pc = "pending"
    /\ Cardinality(ClonesInFlight) < MAX_CONCURRENT_CLONES
    /\ IF clone_dest_exists(tree, clone_tasks[j].name)
       THEN /\ ~raises
            /\ clone_tasks' = [clone_tasks EXCEPT ![j].pc = "done", ![j].res = "True"]
            /\ UNCHANGED tree
       ELSE /\ raises =>
                clone_tasks' = [clone_tasks EXCEPT ![j].pc = "sleep", ![j].attempt = 1]
            /\ ~raises =>
                clone_tasks' = [clone_tasks EXCEPT ![j].pc = "git_run",
                                                   ![j].attempt = 1,
                                                   ![j].git = "spawned"]
            /\ UNCHANGED tree
    /\ UNCHANGED <<cpc, nodes, tree0, clone_success>>
    /\ UNCHANGED notCloneVars

\* the git process of job j looks at dest: it creates the directory, or finds
\* one in its way and refuses
GitAct(j) ==
    /\ cpc = "gather"
    /\ clone_tasks[j].pc = "git_run"
    /\ clone_tasks[j].git = "spawned"
    /\ IF tree[clone_tasks[j].name] = "absent"
       THEN /\ tree' = [tree EXCEPT ![clone_tasks[j].name] = "partial"]
            /\ clone_tasks' = [clone_tasks EXCEPT ![j].git = "writing"]
       ELSE /\ clone_tasks' = [clone_tasks EXCEPT ![j].git = "refused"]
            /\ UNCHANGED tree
    /\ UNCHANGED <<cpc, nodes, tree0, clone_success>>
    /\ UNCHANGED notCloneVars

\* proc.communicate() returns: exit 0 with the tree complete, or a non-zero
\* exit (git removes what it wrote, or leaves it) and the failure handler
GitExit(j, rc0, leaves) ==
    /\ cpc = "gather"
    /\ clone_tasks[j].pc = "git_run"
    /\ LET name == clone_tasks[j].name
           git == clone_tasks[j].git
       IN  IF rc0
           THEN /\ git = "writing"
                /\ ~leaves
                /\ tree' = [tree EXCEPT ![name] = "cloned"]
                /\ clone_tasks' = [clone_tasks EXCEPT ![j].pc = "done",
                                                      ![j].git = "none",
                                                      ![j].res = "True"]
           ELSE /\ leaves => git \in {"writing", "damaged"}
                /\ FailedAttempt(j,
                     IF git = "writing"
                     THEN [tree EXCEPT ![name] = IF leaves THEN "partial" ELSE "absent"]
                     ELSE IF git = "damaged" /\ leaves /\ tree[name] = "absent"
                          THEN [tree EXCEPT ![name] = "partial"]
                          ELSE tree)
    /\ UNCHANGED <<cpc, nodes, tree0, clone_success>>
    /\ UNCHANGED notCloneVars

\* asyncio.sleep(3) ends: the next attempt starts, or `return False`
CloneSleepDone(j, raises) ==
    /\ cpc = "gather"
    /\ clone_tasks[j].pc = "sleep"
    /\ IF clone_tasks[j].attempt >= clone_max_retries
       THEN /\ ~raises
            /\ clone_tasks' = [clone_tasks EXCEPT ![j].pc = "done", ![j].res = "False"]
            /\ UNCHANGED tree
       ELSE IF raises
            THEN /\ tree' = [tree EXCEPT ![clone_tasks[j].name] = "absent"]
                 /\ clone_tasks' =
                      [ (IF tree[clone_tasks[j].name] # "absent"
                         THEN damage_siblings(clone_tasks, j, clone_tasks[j].name)
                         ELSE clone_tasks)
                        EXCEPT ![j].pc = "sleep", ![j].attempt = @ + 1 ]
            ELSE /\ clone_tasks' = [clone_tasks EXCEPT ![j].pc = "git_run",
                                                       ![j].attempt = @ + 1,
                                                       ![j].git = "spawned"]
                 /\ UNCHANGED tree
    /\ UNCHANGED <<cpc, nodes, tree0, clone_success>>
    /\ UNCHANGED notCloneVars

CloneReport_without_await ==
    /\ cpc = "gather"
    /\ clone_success' = Cardinality({ j \in CloneIds : clone_tasks[j].res = "True" })
    /\ cpc' = "install"
    /\ UNCHANGED <<nodes, tree, tree0, clone_tasks>>
    /\ UNCHANGED notCloneVars

\* asyncio.gather returns; the clone report, then the requirements stage
CloneReport ==
    /\ cpc = "gather"
    /\ gather_returned(clone_tasks)
    /\ clone_success' = Cardinality({ j \in CloneIds : clone_tasks[j].res = "True" })
    /\ cpc' = "install"
    /\ UNCHANGED <<nodes, tree, tree0, clone_tasks>>
    /\ UNCHANGED notCloneVars

CloneNext ==
    \/ CreateCloneTasks
    \/ \E j \in CloneIds, raises \in BOOLEAN : CloneStart(j, raises)
    \/ \E j \in CloneIds : GitAct(j)
    \/ \E j \in CloneIds, rc0 \in BOOLEAN, leaves \in BOOLEAN : GitExit(j, rc0, leaves)
    \/ \E j \in CloneIds, raises \in BOOLEAN : CloneSleepDone(j, raises)
    \/ CloneReport

\* ------------------------------------------------------------------------
\* Dependency Installer: constants, inputs and pure functions
\* ------------------------------------------------------------------------
MAX_CONCURRENT_INSTALLS == 3

install_max_retries == 2

\* the torch version in the venv when the run starts, and the version a
\* conflicting manifest asks for
TorchInstalled == "2.1"

TorchConflicting == "2.0"

\* what a repository carries as requirements.txt: none, a zero-byte file, a
\* manifest that does not touch torch, a manifest that declares TorchConflicting
ReqStates == {"absent", "empty", "plain", "conflict"}

\* the order in which glob yields the component directories
NameOrder == <<"a", "b">>

has_requirements_of_any_size(fs, reqs, name) ==
    /\ fs[name] # "absent"
    /\ reqs[name] # "absent"

\* the filter of install_requirements_parallel on one component directory
has_requirements(fs, reqs, name) ==
    /\ fs[name] # "absent"
    /\ reqs[name] \notin {"absent", "empty"}

InstallJob(name) ==
    [name |-> name, pc |-> "pending", attempt |-> 0, constrained |-> FALSE,
     runs |-> 0, res |-> "none"]

RECURSIVE build_install_tasks(_, _, _)
build_install_tasks(names, fs, reqs) ==
    IF names = <<>> THEN <<>>
    ELSE (IF has_requirements(fs, reqs, Head(names))
          THEN <<InstallJob(Head(names))>> ELSE <<>>)
         \o build_install_tasks(Tail(names), fs, reqs)

InstallIds == 1..Len(install_tasks)

InstallsInFlight ==
    { j \in InstallIds : install_tasks[j].pc \notin {"pending", "done"} }

\* the head of one attempt of install_requirements_single, up to the spawn of
\* the version probe
begin_attempt(t) ==
    LET a == [t EXCEPT !.attempt = @ + 1, !.constrained = FALSE]
    IN  IF req_files[t.name] = "empty"
        THEN [a EXCEPT !.pc = "done", !.res = "True"]
        ELSE IF ~pybin_exists
             THEN [a EXCEPT !.pc = "done", !.res = "False"]
             ELSE [a EXCEPT !.pc = "probe"]

pip_always_unconstrained(constraints_path, file) == FALSE

\* whether pip is given `--constraint`: constraints_path is set (the probe
\* exited 0) and the file exists
pip_constrained(constraints_path, file) ==
    constraints_path /\ file # "absent"

\* ------------------------------------------------------------------------
\* Dependency Installer: initial state and actions
\* ------------------------------------------------------------------------
InstallIdle ==
    /\ req_files = [n \in ComponentNames |-> "absent"]
    /\ pybin_exists = TRUE
    /\ install_tasks = <<>>
    /\ constraints_file = "absent"
    /\ constraints_writes = 0
    /\ torch_version = TorchInstalled
    /\ install_success = 0

\* main at line 183, after the clone stage: the component directories are in
\* place, each with or without a requirements.txt
InstallInit ==
    /\ cpc = "install"
    /\ nodes = <<>>
    /\ tree \in [ComponentNames -> {"absent", "cloned"}]
    /\ tree0 = tree
    /\ clone_tasks = <<>>
    /\ clone_success = 0
    /\ req_files \in [ComponentNames -> ReqStates]
    /\ \A n \in ComponentNames : tree[n] = "absent" => req_files[n] = "absent"
    /\ pybin_exists \in BOOLEAN
    /\ install_tasks = <<>>
    /\ constraints_file \in {"absent", TorchInstalled}
    /\ constraints_writes = 0
    /\ torch_version = TorchInstalled
    /\ install_success = 0

\* install_requirements_parallel up to asyncio.gather, or its early return
CreateInstallTasks ==
    /\ cpc = "install"
    /\ install_tasks' = build_install_tasks(NameOrder, tree, req_files)
    /\ cpc' = IF install_tasks' = <<>> THEN "finished" ELSE "install_gather"
    /\ UNCHANGED <<req_files, pybin_exists, constraints_file, constraints_writes,
                   torch_version, install_success>>
    /\ UNCHANGED notInstallVars

\* a job gets a slot of the semaphore and starts its first attempt
InstallStart(j) ==
    /\ cpc = "install_gather"
    /\ install_tasks[j].pc = "pending"
    /\ Cardinality(InstallsInFlight) < MAX_CONCURRENT_INSTALLS
    /\ install_tasks' = [install_tasks EXCEPT ![j] = begin_attempt(@)]
    /\ UNCHANGED <<cpc, req_files, pybin_exists, constraints_file,
                   constraints_writes, torch_version, install_success>>
    /\ UNCHANGED notInstallVars

\* the version probe ends (ok: it exited 0; otherwise a non-zero exit or an
\* exception, constraints_path = None): the constraints file is written, the
\* pip command is built and pip is spawned (or the spawn raises)
ProbeExit(j, ok, spawn_raises) ==
    /\ cpc = "install_gather"
    /\ install_tasks[j].pc = "probe"
    /\ constraints_file' = IF ok THEN torch_version ELSE constraints_file
    /\ constraints_writes' = IF ok THEN constraints_writes + 1 ELSE constraints_writes
    /\ install_tasks' =
         IF spawn_raises
         THEN [install_tasks EXCEPT ![j].pc = "sleep"]
         ELSE [install_tasks EXCEPT
                 ![j].pc = "pip_run",
                 ![j].runs = @ + 1,
                 ![j].constrained = pip_constrained(ok, constraints_file')]
    /\ UNCHANGED <<cpc, req_files, pybin_exists, torch_version, install_success>>
    /\ UNCHANGED notInstallVars

\* pip exits. Under the constraint a manifest that declares another torch
\* cannot be resolved; without it, a successful pip has installed that torch
PipExit(j, rc0) ==
    /\ cpc = "install_gather"
    /\ install_tasks[j].pc = "pip_run"
    /\ LET conflict == req_files[install_tasks[j].name] = "conflict"
       IN  IF rc0
           THEN /\ ~(conflict /\ install_tasks[j].constrained)
                /\ torch_version' = IF conflict THEN TorchConflicting ELSE torch_version
                /\ install_tasks' = [install_tasks EXCEPT ![j].pc = "done",
                                                          ![j].res = "True"]
           ELSE /\ install_tasks' = [install_tasks EXCEPT ![j].pc = "sleep"]
                /\ UNCHANGED torch_version
    /\ UNCHANGED <<cpc, req_files, pybin_exists, constraints_file,
                   constraints_writes, install_success>>
    /\ UNCHANGED notInstallVars

InstallSleepDone_without_bound(j) ==
    /\ cpc = "install_gather"
    /\ install_tasks[j].pc = "sleep"
    /\ install_tasks' = [install_tasks EXCEPT ![j] = begin_attempt(@)]
    /\ UNCHANGED <<cpc, req_files, pybin_exists, constraints_file,
                   constraints_writes, torch_version, install_success>>
    /\ UNCHANGED notInstallVars

\* asyncio.sleep(5) ends: the next attempt starts, or `return False`
InstallSleepDone(j) ==
    /\ cpc = "install_gather"
    /\ install_tasks[j].pc = "sleep"
    /\ install_tasks' =
         IF install_tasks[j].attempt >= install_max_retries
         THEN [install_tasks EXCEPT ![j].pc = "done", ![j].res = "False"]
         ELSE [install_tasks EXCEPT ![j] = begin_attempt(@)]
    /\ UNCHANGED <<cpc, req_files, pybin_exists, constraints_file,
                   constraints_writes, torch_version, install_success>>
    /\ UNCHANGED notInstallVars

\* asyncio.gather returns; the install report
InstallReport ==
    /\ cpc = "install_gather"
    /\ gather_returned(install_tasks)
    /\ install_success' =
         Cardinality({ j \in InstallIds : install_tasks[j].res = "True" })
    /\ cpc' = "finished"
    /\ UNCHANGED <<req_files, pybin_exists, install_tasks, constraints_file,
                   constraints_writes, torch_version>>
    /\ UNCHANGED notInstallVars

InstallNext ==
    \/ CreateInstallTasks
    \/ \E j \in InstallIds : InstallStart(j)
    \/ \E j \in InstallIds, ok \in BOOLEAN, spawn_raises \in BOOLEAN :
          ProbeExit(j, ok, spawn_raises)
    \/ \E j \in InstallIds, rc0 \in BOOLEAN : PipExit(j, rc0)
    \/ \E j \in InstallIds : InstallSleepDone(j)
    \/ InstallReport

\* ------------------------------------------------------------------------
\* The semaphore wrappers download_with_semaphore, clone_with_semaphore and
\* install_with_semaphore: `async with semaphore: return await <job>`
\* ------------------------------------------------------------------------
Stages == {"download", "clone", "install"}

\* the value each batch's asyncio.Semaphore is created with
Limit(stage) ==
    CASE stage = "download" -> MAX_CONCURRENT_DOWNLOADS
      [] stage = "clone"    -> MAX_CONCURRENT_CLONES
      [] stage = "install"  -> MAX_CONCURRENT_INSTALLS
      [] OTHER              -> 0

\* how a wrapped job ends: it returns True or False, or it raises
Outcomes == {"True", "False", "raised"}

SlotIds == 1..Len(slot_jobs)

Running == { j \in SlotIds : slot_jobs[j] = "running" }

slot_always_free(value) == TRUE

\* Semaphore.acquire goes through without waiting while the counter is positive
slot_free(value) == value > 0

SlotIdle ==
    /\ slot_stage = "none"
    /\ sem_value = 0
    /\ slot_jobs = <<>>

\* a batch with more jobs than slots, at asyncio.gather
SlotInit ==
    /\ slot_stage \in Stages
    /\ sem_value = Limit(slot_stage)
    /\ slot_jobs = [j \in 1..(Limit(slot_stage) + ExtraJobs) |-> "pending"]

\* `async with semaphore:` is entered by job j, which starts its work; the
\* waiters of an asyncio.Semaphore are served in the order the jobs were given
Acquire(j) ==
    /\ slot_jobs[j] = "pending"
    /\ \A k \in 1..(j - 1) : slot_jobs[k] # "pending"
    /\ slot_free(sem_value)
    /\ sem_value' = sem_value - 1
    /\ slot_jobs' = [slot_jobs EXCEPT ![j] = "running"]
    /\ UNCHANGED slot_stage
    /\ UNCHANGED notSlotVars

\* the job ends with `outcome`; leaving the `async with` block releases the slot
Release(j, outcome) ==
    /\ slot_jobs[j] = "running"
    /\ sem_value' = sem_value + 1
    /\ slot_jobs' = [slot_jobs EXCEPT ![j] = outcome]
    /\ UNCHANGED slot_stage
    /\ UNCHANGED notSlotVars

SlotNext ==
    \/ \E j \in SlotIds : Acquire(j)
    \/ \E j \in SlotIds, outcome \in Outcomes : Release(j, outcome)

\* C14: the jobs at work in a batch never exceed the batch's limit (8
\* downloads, 6 clones, 3 installs); a job is at work only while it holds a
\* slot, and a job that has ended, with any outcome, holds none.
C14_InFlightWithinLimit ==
    slot_stage \in Stages =>
        /\ Cardinality(Running) <= Limit(slot_stage)
        /\ sem_value >= 0
        /\ sem_value + Cardinality(Running) = Limit(slot_stage)

\* every slot is taken, one of them by the job that had to wait until a
\* failed job released its slot
C14_Witness ==
    /\ slot_stage \in Stages
    /\ Cardinality(Running) = Limit(slot_stage)
    /\ slot_jobs[Len(slot_jobs)] = "running"
    /\ \E j \in SlotIds : slot_jobs[j] \in {"False", "raised"}

\* ------------------------------------------------------------------------
\* Repository Materializer: properties
\* ------------------------------------------------------------------------
MissingNames ==
    { i \in 1..Len(nodes) : tree0[nodes[i].name] = "absent" }

\* C9: one clone job is created per component name whose destination is
\* missing (not one per mirror locator), each job uses the first mirror of its
\* name, and the batch is reported out of that number of jobs.
C9_OneJobPerMissingName ==
    cpc # "start" =>
        /\ Len(clone_tasks) = Cardinality(MissingNames)
        /\ \A j \in CloneIds :
             \E i \in MissingNames :
                /\ clone_tasks[j].name = nodes[i].name
                /\ clone_tasks[j].repo = nodes[i].repos[1]

\* the Dependency Installer has started: main is at or past the call of
\* install_requirements_parallel
InstallerStarted ==
    cpc \in {"install", "install_gather", "finished"} \/ install_tasks # <<>>

\* C28: the Dependency Installer starts, and every step of it is taken, only
\* when every clone job has ended with its outcome.
C28_InstallAfterAllClones ==
    /\ [](InstallerStarted =>
            \A j \in CloneIds : /\ clone_tasks[j].pc = "done"
                                 /\ clone_tasks[j].res \in {"True", "False"})
    /\ [][ installVars' # installVars =>
            \A j \in CloneIds : clone_tasks[j].pc = "done" ]_vars

C28_Witness ==
    /\ cpc = "install_gather"
    /\ \E j \in InstallIds : install_tasks[j].pc = "pip_run"
    /\ \E j, k \in CloneIds : /\ clone_tasks[j].res = "True"
                               /\ clone_tasks[k].res = "False"

\* C30: the cleanup of a failed attempt removes no tree of a sibling job: a
\* sibling's git that is writing is never damaged, and once the clone stage is
\* over every job that returned True has its complete tree on disk.
C30_CleanupSparesSiblings ==
    /\ \A j \in CloneIds : clone_tasks[j].git # "damaged"
    /\ cpc \notin {"start", "gather"} =>
          \A j \in CloneIds :
              clone_tasks[j].res = "True" => tree[clone_tasks[j].name] = "cloned"

\* C19: clone_repo called while its destination exists returns True at once:
\* no attempt, no git subprocess, and the tree is left as it was.
C19_ExistingDestIsSkipped ==
    [][ \A j \in CloneIds :
          ( /\ clone_tasks[j].pc = "pending"
            /\ tree[clone_tasks[j].name] # "absent"
            /\ clone_tasks'[j] # clone_tasks[j] )
          => /\ clone_tasks'[j] = [clone_tasks[j] EXCEPT !.pc = "done", !.res = "True"]
             /\ clone_tasks'[j].attempt = 0
             /\ clone_tasks'[j].git = "none"
             /\ tree' = tree ]_vars

C19_Witness ==
    \E j \in CloneIds :
        /\ clone_tasks[j].pc = "done"
        /\ clone_tasks[j].res = "True"
        /\ clone_tasks[j].attempt = 0
        /\ tree[clone_tasks[j].name] # "absent"

\* job j is the only job of the run for its destination
SoleJobOfName(j) ==
    \A k \in CloneIds : k # j => clone_tasks[k].name # clone_tasks[j].name

C16_TorchVersionPreserved ==
    torch_version = TorchInstalled

\* the components whose requirements.txt is on disk with a size above zero
NonEmptyManifests ==
    { n \in ComponentNames :
        tree[n] # "absent" /\ req_files[n] \in {"plain", "conflict"} }

\* C21: a zero-byte requirements.txt gets no install job (so no probe, no pip
\* run), and the batch and its reported total count only the other manifests.
C21_EmptyManifestExcluded ==
    cpc \in {"install_gather", "finished"} =>
        /\ \A j \in InstallIds : req_files[install_tasks[j].name] # "empty"
        /\ Len(install_tasks) = Cardinality(NonEmptyManifests)
        /\ install_success <= Cardinality(NonEmptyManifests)

C21_Witness ==
    /\ cpc = "finished"
    /\ \E n \in ComponentNames : tree[n] # "absent" /\ req_files[n] = "empty"
    /\ Len(install_tasks) = 1
    /\ install_success = 1

\* C22: an install job runs pip at most max_retries (2) times, once per
\* attempt; it returns True at the pip run that exits 0 and does nothing
\* after it; it returns False, never an exception, and (with the venv's python
\* in place) only after max_retries failed attempts.
C22_BoundedInstallRetries ==
    /\ [](\A j \in InstallIds :
            /\ install_tasks[j].runs <= install_max_retries
            /\ install_tasks[j].runs <= install_tasks[j].attempt
            /\ install_tasks[j].attempt <= install_max_retries
            /\ install_tasks[j].res \in {"none", "True", "False"}
            /\ install_tasks[j].res # "none" <=> install_tasks[j].pc = "done"
            /\ (install_tasks[j].res = "False" /\ pybin_exists)
                  => install_tasks[j].attempt = install_max_retries)
    /\ [][ \A j \in InstallIds :
            /\ (install_tasks[j].res = "none" /\ install_tasks'[j].res = "True")
                  => /\ install_tasks[j].pc = "pip_run"
                     /\ install_tasks'[j].runs = install_tasks[j].runs
            /\ install_tasks[j].pc = "done"
                  => install_tasks'[j] = install_tasks[j] ]_vars

C22_Witness ==
    \E j, k \in InstallIds :
        /\ install_tasks[j].res = "False"
        /\ install_tasks[j].runs = install_max_retries
        /\ install_tasks[k].res = "True"
        /\ install_tasks[k].runs = 2

\* C24: every pip install of a run is started with `--constraint` on the
\* constraints file, which pins torch to the version installed at that time.
C24_EveryInstallConstrained ==
    \A j \in InstallIds :
        install_tasks[j].pc = "pip_run" =>
            /\ install_tasks[j].constrained
            /\ constraints_file # "absent"

\* C17: the constraints file is written at most once in a run, and never
\* while a pip install of the run is in progress or has already been made.
C17_ConstraintsWrittenOnceBeforeInstalls ==
    [][ constraints_writes' # constraints_writes =>
          /\ constraints_writes = 0
          /\ \A j \in InstallIds :
                /\ install_tasks[j].pc \notin {"pip_run", "sleep", "done"}
                /\ install_tasks[j].attempt <= 1 ]_vars

\* ------------------------------------------------------------------------
\* The three batches: properties
\* ------------------------------------------------------------------------
\* a step that ends a job in failure leaves every other job as it was
siblings_untouched(old, new) ==
    \A j \in 1..Len(old) :
        (old[j].res = "none" /\ new[j].res \in {"False", "raised"})
        => \A k \in 1..Len(old) : k # j => new[k] = old[k]

\* a batch that has been reported has every job ended with its own outcome
ReportedBatchesComplete ==
    /\ fpc = "reported" =>
          \A j \in JobIds : download_tasks[j].pc = "done"
                            /\ download_tasks[j].res # "none"
    /\ cpc \in {"install", "install_gather", "finished"} =>
          \A j \in CloneIds : clone_tasks[j].pc = "done"
                              /\ clone_tasks[j].res # "none"
    /\ cpc = "finished" =>
          \A j \in InstallIds : install_tasks[j].pc = "done"
                                /\ install_tasks[j].res # "none"

BatchFinished ==
    fpc \in {"reported", "returned"} \/ cpc = "finished"

\* C15: in the fetch, clone and install batches a job that fails changes no
\* sibling job, a batch is reported only when every one of its jobs has ended
\* with its own outcome, and every run reaches the final report.
C15_JobsRunToTheirOutcome ==
    /\ [][ /\ siblings_untouched(download_tasks, download_tasks')
           /\ siblings_untouched(clone_tasks, clone_tasks')
           /\ siblings_untouched(install_tasks, install_tasks') ]_vars
    /\ []ReportedBatchesComplete
    /\ <>BatchFinished

C15_Witness ==
    \/ /\ cpc = "finished"
       /\ \E j, k \in InstallIds : /\ install_tasks[j].res = "False"
                                   /\ install_tasks[k].res = "True"
    \/ /\ cpc = "finished"
       /\ \E j, k \in CloneIds : /\ clone_tasks[j].res = "False"
                                 /\ clone_tasks[k].res = "True"
                                 /\ clone_tasks[k].attempt >= 1
    \/ /\ fpc = "reported"
       /\ \E j, k \in JobIds : /\ download_tasks[j].res \in {"False", "raised"}
                               /\ download_tasks[k].res = "True"

\* ------------------------------------------------------------------------
\* Fetch Engine: properties
\* ------------------------------------------------------------------------
\* every name a URL of the manifest can resolve to was on disk at the start
AllAssetsExisted ==
    /\ config # <<>>
    /\ \A i \in 1..Len(config) :
        /\ files0[get_filename_from_url(config[i])] # "absent"
        /\ config[i].cd # NoName => files0[config[i].cd] # "absent"

\* C8 (as claimed): with every asset on disk at the start, the run starts no
\* aria2c subprocess and sends no HTTP request.
C8_NoNetworkWhenAllExist ==
    AllAssetsExisted =>
        \A j \in JobIds :
            ~download_tasks[j].spawned /\ download_tasks[j].requests = 0

\* C8 (amended): with every asset on disk at the start, the run starts no
\* aria2c subprocess and writes no file; it sends no HTTP request for a
\* non-Civitai URL when aria2c is installed, and exactly one GET (whose body it
\* does not store) for each Civitai URL and, without aria2c, for each URL.
C8_NoTransferWhenAllExist ==
    AllAssetsExisted =>
        /\ files = files0
        /\ \A n \in FileNames : tmpfiles[n] = "absent"
        /\ \A j \in JobIds :
            /\ ~download_tasks[j].spawned
            /\ download_tasks[j].requests <= 1
            /\ download_tasks[j].requests = 1 =>
                (download_tasks[j].url.civitai \/ ~aria2c_available)
            /\ download_tasks[j].pc = "done" => download_tasks[j].requests = 1
        /\ fpc # "start" =>
             Len(download_tasks) =
               Cardinality({ i \in 1..Len(config) :
                               config[i].civitai \/ ~aria2c_available })

C8_Witness ==
    /\ AllAssetsExisted
    /\ fpc = "reported"
    /\ aria2c_available
    /\ Len(config) = 2
    /\ Len(download_tasks) = 1
    /\ download_tasks[1].requests = 1
    /\ download_tasks[1].res = "True"

\* C10: a job that fell back from aria2c to aiohttp and is reported successful
\* has a complete, non-empty file under its resolved name at the destination.
C10_FallbackSuccessIsComplete ==
    \A j \in JobIds :
        (download_tasks[j].fell_back /\ download_tasks[j].res = "True")
        => files[download_tasks[j].name] = "complete"

\* C11: no fetch job lets an exception escape to its caller: every job ends
\* with a returned True or False.
C11_NoExceptionEscapes ==
    \A j \in JobIds : download_tasks[j].res # "raised"

\* C12: the reported counts account for every job: success_count plus
\* failed_count is the number of jobs, and a run in which some job did not
\* succeed reports at least one failure.
C12_CountsCoverJobs ==
    fpc = "reported" =>
        /\ success_count + failed_count = Len(download_tasks)
        /\ (\E j \in JobIds : download_tasks[j].res # "True") => failed_count >= 1

\* jobs that are writing the final file `name` or its temporary file
WritingTo(name) ==
    { j \in JobIds : download_tasks[j].pc \in {"aria2c_run", "streaming"}
                     /\ download_tasks[j].name = name }

\* C13: at no time do two jobs of one run write to the same destination (the
\* final file or its temporary file).
C13_OneWriterPerDestination ==
    \A n \in FileNames : Cardinality(WritingTo(n)) <= 1

\* C18: no zero-byte file is ever put at a final destination path by a job.
C18_NoEmptyFinalFile ==
    \A n \in FileNames : files[n] = "empty" => files0[n] = "empty"

\* C23: after a job of the secondary transport has ended in failure, no
\* temporary '.tmp' file of that job is left in the destination directory.
C23_NoTmpAfterFailure ==
    \A j \in JobIds :
        ( /\ download_tasks[j].pc = "done"
          /\ download_tasks[j].res = "False"
          /\ download_tasks[j].name # NoName
          /\ Writers(download_tasks[j].name) = {} )
        => tmpfiles[download_tasks[j].name] = "absent"

\* C25: every URL of the manifest whose host is the gated host, or whose URL
\* does not carry the final file name, gets a job of the secondary transport
\* (it is not skipped when the task list is built) and no aria2c subprocess.
C25_GatedOrUnnamedSkipsAria2c ==
    fpc # "start" =>
        \A i \in 1..Len(config) :
            (config[i].host = GatedHost \/ ~config[i].names_file)
            => \E j \in JobIds :
                  /\ download_tasks[j].url = config[i]
                  /\ download_tasks[j].kind = "aiohttp"
                  /\ ~download_tasks[j].spawned

\* C26: a request carries the Authorization header exactly when its host is
\* the gated host and the token is set.
C26_TokenOnlyToGatedHost ==
    \A j \in JobIds :
        download_tasks[j].requests > 0 =>
            ( download_tasks[j].url.id \in auth_sent
              <=> (download_tasks[j].url.host = GatedHost /\ CIVITAI_TOKEN) )

\* ------------------------------------------------------------------------
\* Process Supervisor: properties
\* ------------------------------------------------------------------------
DisallowedLine(l) ==
    /\ detect_missing_module(l) # NoName
    /\ detect_missing_module(l) \notin OPTIONAL_MODULES

\* C1: after a successful targeted install that leaves retry_count below
\* max_retries, run_comfyui_with_retry returns nothing before it has launched
\* the child again (no interrupt being involved).
C1_RelaunchBeforeResult ==
    \A k \in 1..Len(installs) :
        (installs[k].ok /\ retry_count < max_retries /\ ~interrupted
            /\ result # "none")
        => process > installs[k].at

\* C2: once a missing-module line for a name outside OPTIONAL_MODULES has been
\* read, the child is no longer running, install_module has not been called and
\* is never called, no child is launched again, and (unless a KeyboardInterrupt
\* arrives first) the call returns False.
C2_DisallowedIsFatal ==
    /\ \A k \in 1..Len(installs) : installs[k].module \in OPTIONAL_MODULES
    /\ DisallowedLine(line) =>
        /\ children[process] # "running"
        /\ installs = <<>>
        /\ pc \in {"wait_term", "done"}
        /\ (pc = "done" /\ ~interrupted => result = "False")

C2_Witness ==
    /\ DisallowedLine(line)
    /\ pc = "done"
    /\ result = "False"
    /\ children[process] = "killed"
    /\ Launches = 1

\* C3: when the targeted install of an allow-listed module fails, the call has
\* ended with False, having relaunched the child at most max_retries times and
\* not at all after the failed install.
C3_FailedInstallIsFailure ==
    \A k \in 1..Len(installs) :
        ~installs[k].ok =>
            /\ pc = "done"
            /\ result = "False"
            /\ Launches - 1 <= max_retries
            /\ process = installs[k].at

C3_Witness ==
    /\ Len(installs) = 1
    /\ ~installs[1].ok
    /\ installs[1].module \in OPTIONAL_MODULES
    /\ result = "False"

\* C4: when the stream ended without a missing-module line and the child
\* exited with a non-zero code, the call does not return True and the wrapper
\* does not exit with code 0.
C4_CrashIsFailure ==
    (pc = "done" /\ eof_seen /\ ~interrupted /\ children[process] = "exit1")
    => (result # "True" /\ wrapper_exit_code(result) # 0)

\* C5: once the stream has ended without a missing-module line, nothing is
\* installed, no child is launched again, and the call returns True after the
\* child has exited (an interrupt makes it return True without the wait).
C5_EofCompletes ==
    eof_seen =>
        /\ installs = <<>>
        /\ pc \in {"wait_final", "done"}
        /\ (pc = "done" => result = "True")
        /\ (pc = "done" /\ ~interrupted => Exited(children[process]))

C5_Witness ==
    /\ eof_seen
    /\ pc = "done"
    /\ ~interrupted
    /\ result = "True"
    /\ children[process] = "exit0"

\* C6: a KeyboardInterrupt delivered while a child is bound to `process`
\* terminates that child and makes the call return True.
C6_InterruptCompletes ==
    (interrupted /\ process > 0)
    => (result = "True" /\ children[process] # "running")

\* C7: the child is launched at most max_retries times, and a call that ends
\* with retry_count at max_retries, no stream having ended normally and no
\* startup marker seen, returns False.
C7_ExhaustedIsFailed ==
    /\ Launches <= max_retries
    /\ (pc = "done" /\ retry_count >= max_retries /\ ~eof_seen
            /\ ~startup_complete /\ ~interrupted)
       => result = "False"


\* C27: install_module starts and runs only after the child whose output was
\* classified has been terminated and has exited.
C27_InstallAfterChildExit ==
    /\ pc = "install" =>
          /\ process > 0
          /\ children[process] \in {"exit0", "exit1", "killed"}
    /\ \A k \in 1..Len(installs) :
          children[installs[k].at] \in {"exit0", "exit1", "killed"}

C27_Witness ==
    /\ pc = "install"
    /\ children[process] = "killed"

\* the children of this call that have been launched and have not exited
Alive == { i \in 1..max_retries : children[i] \in {"running", "terminating"} }

\* C29: at most one child process is alive at any time.
C29_AtMostOneChildAlive ==
    Cardinality(Alive) <= 1

\* a line with the text "No module named" that carries no quoted name
UnparsableLine(l) == l.no_module /\ l.quoted = NoName

\* C31: once a line containing "No module named" without an extractable name
\* has been read, the child is terminated, install_module is not called, no
\* child is launched any more, and the call returns False (no interrupt being
\* involved).
C31_UnparsableIsFatal ==
    UnparsableLine(line) =>
        /\ children[process] # "running"
        /\ installs = <<>>
        /\ pc \in {"wait_term", "done"}
        /\ \A i \in 1..max_retries : i > process => children[i] = "none"
        /\ (pc = "done" /\ ~interrupted => result = "False")

C31_Witness ==
    /\ UnparsableLine(line)
    /\ ~interrupted
    /\ pc = "done"
    /\ result = "False"
    /\ children[process] = "killed"
    /\ installs = <<>>
    /\ Launches = 1

\* ------------------------------------------------------------------------
\* Specifications
\* ------------------------------------------------------------------------
SupIdle ==
    /\ pc = "idle"
    /\ retry_count = 0
    /\ process = 0
    /\ children = [i \in 1..max_retries |-> "none"]
    /\ startup_complete = FALSE
    /\ line_count = 0
    /\ line = NoLine
    /\ installs = <<>>
    /\ eof_seen = FALSE
    /\ interrupted = FALSE
    /\ result = "none"

\* the Process Supervisor
Init == SupInit /\ FetchIdle /\ CloneIdle /\ InstallIdle /\ SlotIdle

Next == SupNext

Spec == Init /\ [][Next]_vars

\* the Fetch Engine
FetchStart == FetchInit /\ SupIdle /\ CloneIdle /\ InstallIdle /\ SlotIdle

FetchSpec == FetchStart /\ [][FetchNext]_vars

\* the Repository Materializer
CloneStartState == CloneInit /\ SupIdle /\ FetchIdle /\ InstallIdle /\ SlotIdle

CloneSpec == CloneStartState /\ [][CloneNext]_vars

\* the Dependency Installer
InstallStartState == InstallInit /\ SupIdle /\ FetchIdle /\ SlotIdle

InstallSpec == InstallStartState /\ [][InstallNext]_vars

\* the component setup run, main from its entry to its end: the clone stage
\* and then the requirements stage; every repository carries a requirements.txt
MainStartState ==
    /\ CloneInit
    /\ req_files = [n \in ComponentNames |-> "plain"]
    /\ pybin_exists = TRUE
    /\ install_tasks = <<>>
    /\ constraints_file = "absent"
    /\ constraints_writes = 0
    /\ torch_version = TorchInstalled
    /\ install_success = 0
    /\ SupIdle /\ FetchIdle /\ SlotIdle

MainNext == CloneNext \/ InstallNext

MainSpec == MainStartState /\ [][MainNext]_vars

\* the semaphore wrapper of a batch
SlotStartState ==
    SlotInit /\ SupIdle /\ FetchIdle /\ CloneIdle /\ InstallIdle

SlotSpec == SlotStartState /\ [][SlotNext]_vars

\* any one of the three batches, run to its end: the event loop keeps taking
\* steps while one is possible, and every subprocess and request ends
BatchInit == FetchStart \/ CloneStartState \/ InstallStartState

BatchNext == FetchNext \/ CloneNext \/ InstallNext

BatchFairSpec == BatchInit /\ [][BatchNext]_vars /\ WF_vars(BatchNext)

====
